---- MODULE Spec2Model ----
(***************************************************************************)
(* TwoFactorIncomplete (src/db/models/two_factor_incomplete.rs): the table  *)
(* of logins that passed the password check but have not completed 2FA.    *)
(*                                                                         *)
(* The table is a set of rows.  Every db_run! block is one SQL statement   *)
(* and therefore one atomic step; an async fn is cut at its .await points, *)
(* so concurrent request handlers interleave between the statements of     *)
(* mark_incomplete and of mark_complete.  A statement may fail (connection *)
(* lost, pool exhausted, ...): the `fault` parameter of the actions.       *)
(* CONFIG is read only by the two feature gates, once per call, and may be *)
(* changed between any two calls: each gated call draws the values it      *)
(* reads and keeps them in its call record.                                *)
(***************************************************************************)
EXTENDS Integers, FiniteSets, Sequences, TLC

\* ---------------------------------------------------------------- bounds
MaxTime == 1    \* the clock runs over 0..MaxTime
MaxCalls == 2   \* calls issued in one behaviour

Procs == {"p1", "p2"}            \* concurrent request handlers / the sweeper job
Users == {"U1", "U2"}            \* UserId
Devices == {"D1", "D2"}          \* DeviceId, as claimed by the device
\* The clients that log in: <<device_name, device_type, ip>>, the ip shortened
\* to two octets.
Clients == {<<"phone", 7, <<10, 1>>>>, <<"laptop", 9, <<10, 2>>>>}
Names == {c[1] : c \in Clients}
Types == {c[2] : c \in Clients}
Ips == {c[3] : c \in Clients}
TimeLimits == {-1, 0, 1}         \* CONFIG.incomplete_2fa_time_limit()
Times == 0..MaxTime
Thresholds == 0..(MaxTime + 1)   \* the dt handed to find_logins_before

NoId == "-"                      \* a call that takes no user / device

VARIABLES
    table,          \* twofactor_incomplete: the set of rows
    now,            \* Utc::now()
    pc,             \* pc[p]: where handler p stands in its call
    call,           \* call[p]: the call p runs or has just finished, with its arguments
    result,         \* result[p]: what p's finished call returned, while p holds it
    hist,           \* hist[p]: what happened to p's call and to its key since it began
    ncalls          \* calls issued so far; call[p].id is the rank of p's call

vars == <<table, now, pc, call, result, hist, ncalls>>

\* ------------------------------------------------------------ the record

\* ip.ip.to_string()
IpToString(ip) == ToString(ip[1]) \o "." \o ToString(ip[2])

\* One TwoFactorIncomplete row, as the insert statement builds it.
NewRow(u, d, n, ty, t, ip) ==
    [user_uuid |-> u, device_uuid |-> d, device_name |-> n, device_type |-> ty,
     login_time |-> t, ip_address |-> IpToString(ip)]

\* The rows an earlier run of the server may have left in the table: two
\* devices of U1 and one of U2, all of time 0.
Stored ==
    {NewRow("U1", "D1", "phone", 7, 0, <<10, 1>>),
     NewRow("U1", "D2", "laptop", 9, 0, <<10, 2>>),
     NewRow("U2", "D1", "phone", 7, 0, <<10, 1>>)}

\* ------------------------------------------------- the feature gate

\* Two slips of the gate: && for ||, and < for <=.
FeatureDisabledAnd(tl, me) == tl <= 0 /\ ~me
FeatureDisabledStrict(tl, me) == tl < 0 \/ ~me
\* CONFIG.incomplete_2fa_time_limit() <= 0 || !CONFIG.mail_enabled()
FeatureDisabled(tl, me) == tl <= 0 \/ ~me

\* ------------------------------------------------- the SQL statements

\* .filter(user_uuid.eq(user_uuid)).filter(device_uuid.eq(device_uuid))
Matching(t, u, d) == {r \in t : r.user_uuid = u /\ r.device_uuid = d}

\* .first::<TwoFactorIncompleteDb>(conn).ok().from_db(): an Option, here a set
\* of at most one row; a failed query is None as well.
FirstOk(rows, fault) ==
    IF fault \/ rows = {} THEN {} ELSE {CHOOSE r \in rows : TRUE}

\* Three slips of the insert: a failed statement that wrote its row all the
\* same, a table without the primary key, and an insert that replaces the row
\* of its key (REPLACE INTO / ON CONFLICT DO UPDATE).
InsertPartial(t, row, fault) ==
    IF fault THEN [ok |-> FALSE, dup |-> FALSE, table |-> t \cup {row}]
    ELSE IF Matching(t, row.user_uuid, row.device_uuid) # {}
         THEN [ok |-> FALSE, dup |-> TRUE, table |-> t]
         ELSE [ok |-> TRUE, dup |-> FALSE, table |-> t \cup {row}]
InsertNoKey(t, row, fault) ==
    IF fault THEN [ok |-> FALSE, dup |-> FALSE, table |-> t]
    ELSE [ok |-> TRUE, dup |-> FALSE, table |-> t \cup {row}]
InsertReplace(t, row, fault) ==
    IF fault THEN [ok |-> FALSE, dup |-> FALSE, table |-> t]
    ELSE [ok |-> TRUE, dup |-> FALSE,
          table |-> (t \ Matching(t, row.user_uuid, row.device_uuid)) \cup {row}]
\* insert_into(twofactor_incomplete::table).values(..).execute(conn): the
\* table's primary key (user_uuid, device_uuid) rejects a second row of a key.
Insert(t, row, fault) ==
    IF fault THEN [ok |-> FALSE, dup |-> FALSE, table |-> t]
    ELSE IF Matching(t, row.user_uuid, row.device_uuid) # {}
         THEN [ok |-> FALSE, dup |-> TRUE, table |-> t]
         ELSE [ok |-> TRUE, dup |-> FALSE, table |-> t \cup {row}]

\* A slip of the filter: le for lt.
LoginsBeforeLe(t, dt) == {r \in t : r.login_time <= dt}
\* .filter(login_time.lt(dt)).load(conn)
LoginsBefore(t, dt) == {r \in t : r.login_time < dt}

\* Two slips of the delete: the device filter left out, and ne for eq in it.
DeleteKeyUserOnly(t, u, d) == {r \in t : r.user_uuid # u}
DeleteKeyOtherDevice(t, u, d) == {r \in t : ~(r.user_uuid = u /\ r.device_uuid # d)}
\* diesel::delete(table.filter(user_uuid.eq(..)).filter(device_uuid.eq(..)))
DeleteKey(t, u, d) == t \ Matching(t, u, d)

\* A slip of the bulk delete: one row of the user only.
DeleteUserFirstOnly(t, u) ==
    IF \E r \in t : r.user_uuid = u
    THEN t \ {CHOOSE r \in t : r.user_uuid = u}
    ELSE t
\* diesel::delete(table.filter(user_uuid.eq(user_uuid)))
DeleteUser(t, u) == {r \in t : r.user_uuid # u}

\* A slip of the early return: is_none for is_some.
IsNone(opt) == opt = {}
\* existing.is_some()
IsSome(opt) == opt # {}

\* ------------------------------------------------------- return values
Unit == [kind |-> "Ok", rows |-> {}]                \* Ok(())
Err == [kind |-> "Err", rows |-> {}]                \* Err(..) of map_res
Panicked == [kind |-> "Panic", rows |-> {}]         \* .expect(..) failed
Option(rows) == [kind |-> "Option", rows |-> rows]  \* Some(row) / None
Vec(rows) == [kind |-> "Vec", rows |-> rows]        \* Vec<Self>
NoResult == [kind |-> "-", rows |-> {}]

EmptyResult(ok) == IF ok THEN Unit ELSE Err

\* --------------------------------------------------- bookkeeping (ghost)
NoCall == [id |-> 0, op |-> "-", user |-> NoId, device |-> NoId,
           name |-> "-", type |-> 0, ip |-> <<0, 0>>, dt |-> 0,
           time_limit |-> 0, mail_enabled |-> FALSE]

\* hist[p], about p's call: the rows of its key when it began (start) and the
\* time then (t0), how the gate went, whether a statement of it failed (fault),
\* whether its insert was rejected as a duplicate key (dup), whether rows of
\* its key were inserted (ins: for mark_complete, since its delete statement)
\* or deleted (del) since it began, and the clients of the other
\* mark_incomplete calls on its key that ran while it ran (racers).
NoHist == [start |-> {}, t0 |-> 0, gate |-> "-", fault |-> FALSE, dup |-> FALSE,
           ins |-> FALSE, del |-> FALSE, racers |-> {}]

\* The rows a call is about: its key's, all of its user's, or, for the scan
\* of find_logins_before, all of the table.
RowsOf(t, c) ==
    IF c.op = "find_logins_before"
    THEN t
    ELSE IF c.device = NoId
         THEN {r \in t : r.user_uuid = c.user}
         ELSE {r \in t : r.user_uuid = c.user /\ r.device_uuid = c.device}

\* hist after an insert statement took the table from t to t2: every handler
\* notes whether a row of its call's key came.
NotedInsert(h, c, t, t2) ==
    [q \in Procs |->
        [h[q] EXCEPT !.ins = @ \/ (RowsOf(t2, c[q]) \ RowsOf(t, c[q]) # {})]]

\* hist after a delete statement took the table from t to t2: every handler
\* notes whether a row of its call's key went.
NotedDelete(h, c, t, t2) ==
    [q \in Procs |->
        [h[q] EXCEPT !.del = @ \/ (RowsOf(t, c[q]) \ RowsOf(t2, c[q]) # {})]]

\* p may begin a call: a handler runs one call at a time.
CanBegin(p) == pc[p] = "idle" /\ ncalls < MaxCalls

\* call and hist once p has begun call c: the call gets the next rank, and a
\* fresh history that remembers the rows of its key at that moment.
Began(p, c) == [call EXCEPT ![p] = [c EXCEPT !.id = ncalls + 1]]
Fresh(p, c, gate, fault) ==
    [hist EXCEPT ![p] = [NoHist EXCEPT !.start = RowsOf(table, c), !.t0 = now,
                                       !.gate = gate, !.fault = fault]]

\* The mark_incomplete calls on c's key that are under way, p's aside.
UnderWay(p, c) ==
    {q \in Procs \ {p} : /\ pc[q] \in {"mi_find", "mi_insert"}
                          /\ call[q].user = c.user
                          /\ call[q].device = c.device}

\* h once p's mark_incomplete call c has passed the gate: p and the calls
\* under way on the same key note each other as racers.
Raced(h, p, c) ==
    [q \in Procs |->
        IF q = p
        THEN [h[q] EXCEPT !.racers = {<<call[r].name, call[r].type, call[r].ip>> :
                                         r \in UnderWay(p, c)}]
        ELSE IF q \in UnderWay(p, c)
             THEN [h[q] EXCEPT !.racers = @ \cup {<<c.name, c.type, c.ip>>}]
             ELSE h[q]]

TypeOK ==
    /\ table \subseteq [user_uuid : Users, device_uuid : Devices, device_name : Names,
                        device_type : Types, login_time : Times,
                        ip_address : {IpToString(ip) : ip \in Ips}]
    /\ now \in Times
    /\ pc \in [Procs -> {"idle", "mi_find", "mi_insert", "mc_delete", "done"}]
    /\ ncalls \in 0..MaxCalls


\* The server starts on an empty table or on the rows of an earlier run.
Init ==
    /\ table \in {{}, Stored}
    /\ now = 0
    /\ pc = [p \in Procs |-> "idle"]
    /\ call = [p \in Procs |-> NoCall]
    /\ result = [p \in Procs |-> NoResult]
    /\ hist = [p \in Procs |-> NoHist]
    /\ ncalls = 0

\* ------------------------------------------------------ mark_incomplete

\* Lines 32-42: the call and its feature gate, which returns Ok(()) before
\* any statement runs.  tl and me are what CONFIG holds when the gate reads
\* it: the configuration is read nowhere else, and the operator may change it
\* between any two calls, so each call draws the values it reads.
mark_incomplete(p, u, d, n, ty, ip, tl, me) ==
    LET c == [NoCall EXCEPT !.op = "mark_incomplete", !.user = u, !.device = d,
                            !.name = n, !.type = ty, !.ip = ip,
                            !.time_limit = tl, !.mail_enabled = me]
        off == FeatureDisabled(tl, me)
    IN  /\ CanBegin(p)
        /\ ncalls' = ncalls + 1
        /\ call' = Began(p, c)
        /\ hist' = IF off THEN Fresh(p, c, "closed", FALSE)
                   ELSE Raced(Fresh(p, c, "open", FALSE), p, c)
        /\ pc' = [pc EXCEPT ![p] = IF off THEN "done" ELSE "mi_find"]
        /\ result' = [result EXCEPT ![p] = IF off THEN Unit ELSE NoResult]
        /\ UNCHANGED <<table, now>>

\* Lines 47-50: the lookup, and the early return when a row exists.
mark_incomplete_find(p, fault) ==
    LET c == call[p]
        existing == FirstOk(Matching(table, c.user, c.device), fault)
    IN  /\ pc[p] = "mi_find"
        /\ hist' = [hist EXCEPT ![p].fault = @ \/ fault]
        /\ IF IsSome(existing)
           THEN /\ pc' = [pc EXCEPT ![p] = "done"]
                /\ result' = [result EXCEPT ![p] = Unit]
           ELSE /\ pc' = [pc EXCEPT ![p] = "mi_insert"]
                /\ UNCHANGED result
        /\ UNCHANGED <<table, now, call, ncalls>>

\* Lines 52-64: the insert, with login_time = Utc::now().
mark_incomplete_insert(p, fault) ==
    LET c == call[p]
        ins == Insert(table, NewRow(c.user, c.device, c.name, c.type, now, c.ip), fault)
    IN  /\ pc[p] = "mi_insert"
        /\ table' = ins.table
        /\ result' = [result EXCEPT ![p] = EmptyResult(ins.ok)]
        /\ pc' = [pc EXCEPT ![p] = "done"]
        /\ hist' = NotedInsert([hist EXCEPT ![p].fault = @ \/ fault, ![p].dup = ins.dup],
                               call, table, ins.table)
        /\ UNCHANGED <<now, call, ncalls>>

\* -------------------------------------------------------- mark_complete

\* Lines 67-70: the call and its feature gate.
mark_complete(p, u, d, tl, me) ==
    LET c == [NoCall EXCEPT !.op = "mark_complete", !.user = u, !.device = d,
                            !.time_limit = tl, !.mail_enabled = me]
        off == FeatureDisabled(tl, me)
    IN  /\ CanBegin(p)
        /\ ncalls' = ncalls + 1
        /\ call' = Began(p, c)
        /\ hist' = Fresh(p, c, IF off THEN "closed" ELSE "open", FALSE)
        /\ pc' = [pc EXCEPT ![p] = IF off THEN "done" ELSE "mc_delete"]
        /\ result' = [result EXCEPT ![p] = IF off THEN Unit ELSE NoResult]
        /\ UNCHANGED <<table, now>>

\* Line 72: Self::delete_by_user_and_device(user_uuid, device_uuid, conn).await
mark_complete_delete(p, fault) ==
    LET c == call[p]
        t2 == IF fault THEN table ELSE DeleteKey(table, c.user, c.device)
    IN  /\ pc[p] = "mc_delete"
        /\ table' = t2
        /\ result' = [result EXCEPT ![p] = EmptyResult(~fault)]
        /\ pc' = [pc EXCEPT ![p] = "done"]
        /\ hist' = NotedDelete([hist EXCEPT ![p].fault = @ \/ fault, ![p].ins = FALSE],
                               call, table, t2)
        /\ UNCHANGED <<now, call, ncalls>>

\* ------------------------------------------------------------ the reads

\* Lines 75-88.
find_by_user_and_device(p, u, d, fault) ==
    LET c == [NoCall EXCEPT !.op = "find_by_user_and_device", !.user = u, !.device = d]
    IN  /\ CanBegin(p)
        /\ ncalls' = ncalls + 1
        /\ call' = Began(p, c)
        /\ hist' = Fresh(p, c, "-", fault)
        /\ result' = [result EXCEPT ![p] = Option(FirstOk(Matching(table, u, d), fault))]
        /\ UNCHANGED <<table, now>>
        /\ pc' = [pc EXCEPT ![p] = "done"]

\* A slip of the scan: a failed load is taken for an empty one
\* (unwrap_or_default for expect).
find_logins_before_lenient(p, dt, fault) ==
    LET c == [NoCall EXCEPT !.op = "find_logins_before", !.dt = dt]
    IN  /\ CanBegin(p)
        /\ ncalls' = ncalls + 1
        /\ call' = Began(p, c)
        /\ hist' = Fresh(p, c, "-", fault)
        /\ result' = [result EXCEPT ![p] =
                         IF fault THEN Vec({}) ELSE Vec(LoginsBefore(table, dt))]
        /\ UNCHANGED <<table, now>>
        /\ pc' = [pc EXCEPT ![p] = "done"]

\* Another slip of the scan: it deletes the rows it returns.
find_logins_before_purging(p, dt, fault) ==
    LET c == [NoCall EXCEPT !.op = "find_logins_before", !.dt = dt]
        t2 == IF fault THEN table ELSE table \ LoginsBefore(table, dt)
    IN  /\ CanBegin(p)
        /\ ncalls' = ncalls + 1
        /\ call' = Began(p, c)
        /\ hist' = NotedDelete(Fresh(p, c, "-", fault), Began(p, c), table, t2)
        /\ result' = [result EXCEPT ![p] =
                         IF fault THEN Panicked ELSE Vec(LoginsBefore(table, dt))]
        /\ table' = t2
        /\ UNCHANGED <<now>>
        /\ pc' = [pc EXCEPT ![p] = "done"]

\* Lines 90-98: a failed load panics in .expect(..); the task unwinds and the
\* handler is free for the next call.
find_logins_before(p, dt, fault) ==
    LET c == [NoCall EXCEPT !.op = "find_logins_before", !.dt = dt]
    IN  /\ CanBegin(p)
        /\ ncalls' = ncalls + 1
        /\ call' = Began(p, c)
        /\ hist' = Fresh(p, c, "-", fault)
        /\ result' = [result EXCEPT ![p] =
                         IF fault THEN Panicked ELSE Vec(LoginsBefore(table, dt))]
        /\ UNCHANGED <<table, now>>
        /\ pc' = [pc EXCEPT ![p] = "done"]

\* ---------------------------------------------------------- the deletes

\* A slip of the delete: it stands behind the feature gate of mark_complete.
delete_by_user_and_device_gated(p, u, d, tl, me, fault) ==
    LET c == [NoCall EXCEPT !.op = "delete_by_user_and_device", !.user = u, !.device = d,
                            !.time_limit = tl, !.mail_enabled = me]
        off == FeatureDisabled(tl, me)
        t2 == IF fault \/ off THEN table ELSE DeleteKey(table, u, d)
    IN  /\ CanBegin(p)
        /\ ncalls' = ncalls + 1
        /\ call' = Began(p, c)
        /\ table' = t2
        /\ result' = [result EXCEPT ![p] = EmptyResult(off \/ ~fault)]
        /\ hist' = NotedDelete(Fresh(p, c, "-", fault /\ ~off), Began(p, c), table, t2)
        /\ UNCHANGED <<now>>
        /\ pc' = [pc EXCEPT ![p] = "done"]

\* Lines 104-116.  The deletes have no gate: tl and me are what CONFIG holds
\* while the call runs, which no line of the call reads.
delete_by_user_and_device(p, u, d, tl, me, fault) ==
    LET c == [NoCall EXCEPT !.op = "delete_by_user_and_device", !.user = u, !.device = d,
                            !.time_limit = tl, !.mail_enabled = me]
        t2 == IF fault THEN table ELSE DeleteKey(table, u, d)
    IN  /\ CanBegin(p)
        /\ ncalls' = ncalls + 1
        /\ call' = Began(p, c)
        /\ table' = t2
        /\ result' = [result EXCEPT ![p] = EmptyResult(~fault)]
        /\ hist' = NotedDelete(Fresh(p, c, "-", fault), Began(p, c), table, t2)
        /\ UNCHANGED <<now>>
        /\ pc' = [pc EXCEPT ![p] = "done"]

\* Lines 100-102: delete(self), on a record r the caller holds from the find
\* it has just made.
delete(p, r, tl, me, fault) ==
    LET c == [NoCall EXCEPT !.op = "delete", !.user = r.user_uuid, !.device = r.device_uuid,
                            !.time_limit = tl, !.mail_enabled = me]
        t2 == IF fault THEN table ELSE DeleteKey(table, r.user_uuid, r.device_uuid)
    IN  /\ pc[p] = "done"
        /\ r \in result[p].rows
        /\ ncalls < MaxCalls
        /\ ncalls' = ncalls + 1
        /\ call' = Began(p, c)
        /\ table' = t2
        /\ result' = [result EXCEPT ![p] = EmptyResult(~fault)]
        /\ hist' = NotedDelete(Fresh(p, c, "-", fault), Began(p, c), table, t2)
        /\ UNCHANGED <<now, pc>>

\* Lines 118-124.
delete_all_by_user(p, u, tl, me, fault) ==
    LET c == [NoCall EXCEPT !.op = "delete_all_by_user", !.user = u,
                            !.time_limit = tl, !.mail_enabled = me]
        t2 == IF fault THEN table ELSE DeleteUser(table, u)
    IN  /\ CanBegin(p)
        /\ ncalls' = ncalls + 1
        /\ call' = Began(p, c)
        /\ table' = t2
        /\ result' = [result EXCEPT ![p] = EmptyResult(~fault)]
        /\ hist' = NotedDelete(Fresh(p, c, "-", fault), Began(p, c), table, t2)
        /\ UNCHANGED <<now>>
        /\ pc' = [pc EXCEPT ![p] = "done"]

\* ------------------------------------------------------ the environment

\* The caller is done with what the call returned; the handler is free again.
Return(p) ==
    /\ pc[p] = "done"
    /\ pc' = [pc EXCEPT ![p] = "idle"]
    /\ call' = [call EXCEPT ![p] = NoCall]
    /\ result' = [result EXCEPT ![p] = NoResult]
    /\ hist' = [hist EXCEPT ![p] = NoHist]
    /\ UNCHANGED <<table, now, ncalls>>

\* Utc::now() advances.
Tick ==
    /\ now < MaxTime
    /\ now' = now + 1
    /\ UNCHANGED <<table, pc, call, result, hist, ncalls>>

Next ==
    \/ \E p \in Procs, u \in Users, d \in Devices, c \in Clients,
          tl \in TimeLimits, me \in BOOLEAN :
          mark_incomplete(p, u, d, c[1], c[2], c[3], tl, me)
    \/ \E p \in Procs, fault \in BOOLEAN : mark_incomplete_find(p, fault)
    \/ \E p \in Procs, fault \in BOOLEAN : mark_incomplete_insert(p, fault)
    \/ \E p \in Procs, u \in Users, d \in Devices, tl \in TimeLimits, me \in BOOLEAN :
          mark_complete(p, u, d, tl, me)
    \/ \E p \in Procs, fault \in BOOLEAN : mark_complete_delete(p, fault)
    \/ \E p \in Procs, u \in Users, d \in Devices, fault \in BOOLEAN :
          find_by_user_and_device(p, u, d, fault)
    \/ \E p \in Procs, dt \in Thresholds, fault \in BOOLEAN : find_logins_before(p, dt, fault)
    \/ \E p \in Procs, u \in Users, d \in Devices, tl \in TimeLimits, me \in BOOLEAN,
          fault \in BOOLEAN :
          delete_by_user_and_device(p, u, d, tl, me, fault)
    \/ \E p \in Procs, tl \in TimeLimits, me \in BOOLEAN, fault \in BOOLEAN :
          \E r \in result[p].rows : delete(p, r, tl, me, fault)
    \/ \E p \in Procs, u \in Users, tl \in TimeLimits, me \in BOOLEAN, fault \in BOOLEAN :
          delete_all_by_user(p, u, tl, me, fault)
    \/ \E p \in Procs : Return(p)
    \/ Tick

Spec == Init /\ [][Next]_vars
\* ======================================================================
\* The claims.
\* ======================================================================

\* In this step p begins a call.
Begins(p) == call'[p].id # call[p].id /\ call'[p].id # 0

\* In this step p's call returns: a call that ran over several steps reaches
\* "done", a one-step call begins and is done at once.
Returns(p) == pc'[p] = "done" /\ (pc[p] # "done" \/ Begins(p))

\* The rows of the key of p's call.
KeyRows(t, p) == Matching(t, call[p].user, call[p].device)

\* C1 (write-once): when a mark_incomplete call on a key returns, and the key
\* had a record when the call began and no delete removed it since, then the
\* key still holds exactly that record, with its login_time, device_name,
\* device_type and ip_address, and the call returns Ok(()) (unless one of
\* its own statements failed).
C1_WriteOnce ==
    [][\A p \in Procs :
          (/\ Returns(p)
           /\ call'[p].op = "mark_incomplete"
           /\ hist'[p].start # {}
           /\ ~hist'[p].del)
          => /\ KeyRows(table, p)' = hist'[p].start
             /\ (~hist'[p].fault => result'[p] = Unit)]_vars

\* A second mark_incomplete on U2/D2, by another client and at a later time
\* than the record's, has returned Ok(()) and the record is the first call's.
C1_Witness ==
    \E p \in Procs :
        /\ pc[p] = "done" /\ call[p].op = "mark_incomplete"
        /\ call[p].user = "U2" /\ call[p].device = "D2"
        /\ hist[p].gate = "open" /\ ~hist[p].fault /\ ~hist[p].del
        /\ hist[p].start # {}
        /\ result[p] = Unit
        /\ KeyRows(table, p) = hist[p].start
        /\ \E r \in KeyRows(table, p) :
              /\ r.device_name # call[p].name
              /\ r.ip_address # IpToString(call[p].ip)
              /\ r.login_time < now

\* C2: the table never holds two rows of one (user_uuid, device_uuid).
C2_OnePerKey ==
    \A r1 \in table, r2 \in table :
        (r1.user_uuid = r2.user_uuid /\ r1.device_uuid = r2.device_uuid) => r1 = r2

\* Two calls raced on an empty key: the second insert was turned down and the
\* key holds one row.
C2_Witness ==
    \E p \in Procs :
        /\ pc[p] = "done" /\ call[p].op = "mark_incomplete"
        /\ hist[p].dup /\ hist[p].start = {} /\ ~hist[p].fault
        /\ Cardinality(KeyRows(table, p)) = 1

\* p's mark_incomplete call has passed the gate, began on an empty key, has
\* returned, none of its statements failed and no delete hit its key.
C3_Clean(p) ==
    /\ pc[p] = "done" /\ call[p].op = "mark_incomplete"
    /\ hist[p].gate = "open"
    /\ hist[p].start = {}
    /\ ~hist[p].fault
    /\ ~hist[p].del

\* The key of p's call holds exactly one row, and it is the row of one call:
\* p's own or one of the calls that raced with it, at a time of p's call.
C3_OneRowOfOneCall(p) ==
    /\ Cardinality(KeyRows(table, p)) = 1
    /\ \E cl \in {<<call[p].name, call[p].type, call[p].ip>>} \cup hist[p].racers :
       \E t \in hist[p].t0..now :
          KeyRows(table, p) =
              {NewRow(call[p].user, call[p].device, cl[1], cl[2], t, cl[3])}

\* C3: mark_incomplete calls that began on an empty key and ran concurrently,
\* with the feature on, no delete on the key and no failed statement: once
\* such a call has returned the key holds exactly one row, the row of a
\* single one of the racing calls, and no later step changes it.
C3_ConcurrentOneRecord ==
    [][\A p \in Procs :
          C3_Clean(p)' =>
             /\ C3_OneRowOfOneCall(p)'
             /\ (C3_Clean(p) => KeyRows(table, p)' = KeyRows(table, p))]_vars

\* Both handlers ran mark_incomplete on one empty key, as different clients,
\* each looked up before the other inserted, and both have returned.
C3_Witness ==
    \E p \in Procs, q \in Procs :
        /\ p # q
        /\ C3_Clean(p) /\ C3_Clean(q)
        /\ call[p].user = call[q].user /\ call[p].device = call[q].device
        /\ call[p].name # call[q].name
        /\ hist[p].racers # {} /\ hist[q].racers # {}
        /\ hist[q].dup
        /\ Cardinality(KeyRows(table, p)) = 1

\* C4: a mark_incomplete call that lost the race on an empty key, its insert
\* rejected as a duplicate key, returns Ok(()).
C4_LoserReturnsOk ==
    \A p \in Procs :
        (/\ pc[p] = "done" /\ call[p].op = "mark_incomplete"
         /\ hist[p].start = {} /\ ~hist[p].fault
         /\ hist[p].dup)
        => result[p] = Unit

\* q's find_by_user_and_device on the key of p's call returns in this step.
FindsKeyOf(q, p) ==
    /\ q # p
    /\ Returns(q)
    /\ call'[q].op = "find_by_user_and_device"
    /\ call'[q].user = call[p].user
    /\ call'[q].device = call[p].device

\* C5 as stated: once mark_complete(k) has returned, whatever the table held
\* and however the call went, a find on k returns None as long as no
\* mark_incomplete inserted k since.
C5_ResolvedThenNone ==
    [][\A p \in Procs, q \in Procs :
          (/\ pc[p] = "done" /\ call[p].op = "mark_complete"
           /\ ~hist[p].ins
           /\ FindsKeyOf(q, p))
          => result'[q] = Option({})]_vars

\* C5 amended: with the feature on, once mark_complete(k) has returned
\* Ok(()), a find on k returns None as long as no mark_incomplete inserted k
\* since.
C5_ResolvedThenNoneEnabled ==
    [][\A p \in Procs, q \in Procs :
          (/\ pc[p] = "done" /\ call[p].op = "mark_complete"
           /\ (call[p].time_limit > 0 /\ call[p].mail_enabled)
           /\ result[p] = Unit
           /\ ~hist[p].ins
           /\ FindsKeyOf(q, p))
          => result'[q] = Option({})]_vars

\* mark_complete on a key that had a record returned Ok(()) with the feature
\* on, and a find on the key, made after it, returned None.
C5_Witness ==
    \E p \in Procs, q \in Procs :
        /\ pc[p] = "done" /\ call[p].op = "mark_complete"
        /\ call[p].time_limit > 0 /\ call[p].mail_enabled
        /\ result[p] = Unit /\ ~hist[p].ins
        /\ hist[p].start # {}
        /\ pc[q] = "done" /\ call[q].op = "find_by_user_and_device"
        /\ call[q].user = call[p].user /\ call[q].device = call[p].device
        /\ call[q].id > call[p].id
        /\ ~hist[q].fault
        /\ result[q] = Option({})

\* C6: a mark_incomplete call made with the feature off (time limit <= 0 or
\* mail not enabled) returns Ok(()) in its first step, before any statement,
\* and leaves the table as it was.
C6_DisabledMarkIncomplete ==
    [][\A p \in Procs :
          (/\ Begins(p)
           /\ call'[p].op = "mark_incomplete"
           /\ (call'[p].time_limit <= 0 \/ ~call'[p].mail_enabled))
          => /\ pc'[p] = "done"
             /\ result'[p] = Unit
             /\ table' = table]_vars

\* mark_incomplete returned Ok(()) with a positive time limit and mail off,
\* and its key has no record.
C6_Witness ==
    \E p \in Procs :
        /\ pc[p] = "done" /\ call[p].op = "mark_incomplete"
        /\ call[p].time_limit > 0 /\ ~call[p].mail_enabled
        /\ result[p] = Unit
        /\ KeyRows(table, p) = {}

\* C7: a mark_complete call made with the feature off returns Ok(()) in its
\* first step, before any statement, and leaves the table as it was, the
\* record of its own key included.
C7_DisabledMarkComplete ==
    [][\A p \in Procs :
          (/\ Begins(p)
           /\ call'[p].op = "mark_complete"
           /\ (call'[p].time_limit <= 0 \/ ~call'[p].mail_enabled))
          => /\ pc'[p] = "done"
             /\ result'[p] = Unit
             /\ table' = table]_vars

\* mark_complete returned Ok(()) with time limit 0 and mail on, and the
\* record of its key is still there.
C7_Witness ==
    \E p \in Procs :
        /\ pc[p] = "done" /\ call[p].op = "mark_complete"
        /\ call[p].time_limit = 0 /\ call[p].mail_enabled
        /\ result[p] = Unit
        /\ KeyRows(table, p) # {}
        /\ KeyRows(table, p) = hist[p].start

\* C8: a find_logins_before(dt) that returns, returns exactly the rows of the
\* table whose login_time is strictly before dt: none of a time at or after
\* dt, every one of a time before it, nothing on an empty table.
C8_StaleExactly ==
    [][\A p \in Procs :
          (/\ Returns(p)
           /\ call'[p].op = "find_logins_before"
           /\ result'[p].kind = "Vec")
          => /\ result'[p].rows \subseteq table
             /\ \A r \in table :
                   /\ r.login_time < call'[p].dt => r \in result'[p].rows
                   /\ r.login_time >= call'[p].dt => r \notin result'[p].rows
             /\ (table = {} => result'[p].rows = {})]_vars

\* find_logins_before returned rows of an earlier time and left out a row
\* whose login_time is the threshold itself.
C8_Witness ==
    \E p \in Procs :
        /\ pc[p] = "done" /\ call[p].op = "find_logins_before"
        /\ result[p].kind = "Vec"
        /\ result[p].rows # {}
        /\ \E r \in table : r.login_time = call[p].dt /\ r \notin result[p].rows

\* C9: a delete_all_by_user(u) whose statement does not fail returns Ok(()),
\* removes every row of u and leaves every other row as it was; so too when
\* u has no rows.
C9_DeleteAllByUser ==
    [][\A p \in Procs :
          (/\ Returns(p)
           /\ call'[p].op = "delete_all_by_user"
           /\ ~hist'[p].fault)
          => /\ result'[p] = Unit
             /\ table' \subseteq table
             /\ \A r \in table :
                   /\ r.user_uuid = call'[p].user => r \notin table'
                   /\ r.user_uuid # call'[p].user => r \in table']_vars

\* delete_all_by_user removed the rows of two devices of its user and left
\* another user's row.
C9_Witness ==
    \E p \in Procs :
        /\ pc[p] = "done" /\ call[p].op = "delete_all_by_user"
        /\ result[p] = Unit
        /\ Cardinality({r.device_uuid : r \in hist[p].start}) >= 2
        /\ \A r \in table : r.user_uuid # call[p].user
        /\ table # {}

\* C10: with the feature on, the delete statement of mark_complete(k), when
\* it does not fail, returns Ok(()), removes the row of k and no other row;
\* when k has no row the table stays as it is (a second call changes nothing).
C10_MarkCompleteExactKey ==
    [][\A p \in Procs :
          (/\ pc[p] = "mc_delete"
           /\ Returns(p)
           /\ ~hist'[p].fault)
          => /\ result'[p] = Unit
             /\ KeyRows(table, p)' = {}
             /\ table' \subseteq table
             /\ \A r \in table : r \notin KeyRows(table, p) => r \in table'
             /\ (KeyRows(table, p) = {} => table' = table)]_vars

\* mark_complete removed the record of its key; a record of the same user
\* with another device and one of the same device with another user remain.
C10_Witness ==
    \E p \in Procs :
        /\ pc[p] = "done" /\ call[p].op = "mark_complete"
        /\ hist[p].gate = "open" /\ result[p] = Unit
        /\ hist[p].start # {}
        /\ KeyRows(table, p) = {}
        /\ \E r \in table : r.user_uuid = call[p].user /\ r.device_uuid # call[p].device
        /\ \E r \in table : r.user_uuid # call[p].user /\ r.device_uuid = call[p].device

\* p's mark_incomplete call, under way or returned, began on a key that had a
\* record, and no delete removed that record since.
C11_Retried(p) ==
    /\ call[p].op = "mark_incomplete"
    /\ hist[p].start # {}
    /\ ~hist[p].del

\* C11 (anti-reset): while a key has a record of login_time T0 that no delete
\* removed, a find_logins_before(dt) with dt > T0 that returns, returns that
\* record, whatever mark_incomplete call on the key is under way or has
\* returned in between: the call neither hides the record nor moves its time.
C11_AntiReset ==
    [][\A p \in Procs, q \in Procs :
          (/\ q # p
           /\ C11_Retried(p)
           /\ Returns(q)
           /\ call'[q].op = "find_logins_before"
           /\ result'[q].kind = "Vec")
          => \A r \in hist[p].start :
                r.login_time < call'[q].dt => r \in result'[q].rows]_vars

\* A record of time 0; at time 1 another client retried mark_incomplete on
\* its key with the feature on; the sweep made after that, with threshold 1,
\* returned the record.
C11_Witness ==
    \E p \in Procs, q \in Procs :
        /\ pc[p] = "done" /\ C11_Retried(p)
        /\ hist[p].gate = "open" /\ hist[p].t0 = 1
        /\ \E r \in hist[p].start :
              /\ r.login_time = 0
              /\ r.device_name # call[p].name
              /\ r \in result[q].rows
        /\ pc[q] = "done" /\ call[q].op = "find_logins_before"
        /\ call[q].dt = 1
        /\ call[q].id > call[p].id

\* C12: a mark_incomplete, mark_complete or delete_all_by_user call one of
\* whose statements failed in the storage layer, the lookup of mark_incomplete
\* included, has returned Err.
C12_FailureReturned ==
    \A p \in Procs :
        (/\ pc[p] = "done"
         /\ call[p].op \in {"mark_incomplete", "mark_complete", "delete_all_by_user"}
         /\ hist[p].fault)
        => result[p] = Err

\* C13: a mark_incomplete call that returns Err has left the table as it was:
\* the step that begins the call and the lookup step write nothing, and the
\* insert step that ends the call in Err writes nothing.
C13_ErrLeavesStore ==
    [][\A p \in Procs :
          /\ (Begins(p) /\ call'[p].op = "mark_incomplete") => table' = table
          /\ pc[p] = "mi_find" /\ pc'[p] # "mi_find" => table' = table
          /\ (pc[p] = "mi_insert" /\ Returns(p) /\ result'[p] = Err)
             => table' = table]_vars

\* A mark_incomplete call on an absent key whose insert failed in the storage
\* layer: it returned Err and the key is still absent.
C13_Witness ==
    \E p \in Procs :
        /\ pc[p] = "done" /\ call[p].op = "mark_incomplete"
        /\ result[p] = Err
        /\ hist[p].fault /\ ~hist[p].dup /\ ~hist[p].ins
        /\ hist[p].start = {}
        /\ KeyRows(table, p) = {}
        /\ table = Stored

\* C14: the existence check of mark_incomplete and its insert are one atomic
\* step: while a call has found its key absent and has not yet inserted, no
\* other call's insert or delete changes the rows of that key.
C14_CheckAndInsertAtomic ==
    [][\A p \in Procs :
          (pc[p] = "mi_insert" /\ pc'[p] = "mi_insert")
          => KeyRows(table, p)' = KeyRows(table, p)]_vars

\* This step is the insert statement of a mark_incomplete call on key (u, d),
\* and the key's row after it is that call's fresh row, stamped with the time
\* of the insert.
C15_Created(u, d) ==
    \E p \in Procs :
        /\ pc[p] = "mi_insert" /\ pc'[p] = "done"
        /\ call[p].op = "mark_incomplete"
        /\ call[p].user = u /\ call[p].device = d
        /\ Matching(table, u, d)' =
              {NewRow(u, d, call[p].name, call[p].type, now, call[p].ip)}

\* This step is the delete statement of a mark_complete, delete,
\* delete_by_user_and_device or delete_all_by_user call that covers key (u, d).
C15_Removed(u, d) ==
    \E p \in Procs :
        /\ Returns(p)
        /\ call'[p].user = u
        /\ \/ /\ call'[p].op \in {"mark_complete", "delete", "delete_by_user_and_device"}
              /\ call'[p].device = d
           \/ call'[p].op = "delete_all_by_user"

\* C15: per key, a record comes only by the insert of a mark_incomplete on
\* that key and is then a fresh record with the login_time of that moment; it
\* goes only by mark_complete, delete, delete_by_user_and_device or
\* delete_all_by_user on it; and a step from record to record changes no field.
C15_KeyStateMachine ==
    [][\A u \in Users, d \in Devices :
          LET before == Matching(table, u, d)
              after  == Matching(table, u, d)'
          IN  /\ (before = {} /\ after # {}) => C15_Created(u, d)
              /\ (before # {} /\ after = {}) => C15_Removed(u, d)
              /\ (before # {} /\ after # {}) => after = before]_vars

\* The record of (U1, D1), stored with login_time 0, was deleted, and a later
\* mark_incomplete created the key's record anew with login_time 1.
C15_Witness ==
    \E p \in Procs :
        /\ pc[p] = "done" /\ call[p].op = "mark_incomplete"
        /\ call[p].user = "U1" /\ call[p].device = "D1"
        /\ call[p].id = 2
        /\ hist[p].start = {} /\ hist[p].ins /\ ~hist[p].fault
        /\ Stored \ Matching(Stored, "U1", "D1") \subseteq table
        /\ \E r \in KeyRows(table, p) : r.login_time = 1

\* C16: the steps of a mark_incomplete call add at most one row, of the call's
\* key, and leave every row the table had: the gate and the lookup write
\* nothing, and the insert step keeps all rows, adds none of another key and
\* grows the table by 0 or 1.
C16_AtMostOneRowOwnKey ==
    [][\A p \in Procs :
          /\ (Begins(p) /\ call'[p].op = "mark_incomplete") => table' = table
          /\ (pc[p] = "mi_find" /\ pc'[p] # "mi_find") => table' = table
          /\ (pc[p] = "mi_insert" /\ pc'[p] = "done")
             => /\ table \subseteq table'
                /\ \A r \in table' \ table :
                      r.user_uuid = call[p].user /\ r.device_uuid = call[p].device
                /\ Cardinality(table') - Cardinality(table) \in {0, 1}]_vars

\* A mark_incomplete on (U2, D2) added its one row to the three stored rows of
\* other keys, which are all still there.
C16_Witness ==
    \E p \in Procs :
        /\ pc[p] = "done" /\ call[p].op = "mark_incomplete"
        /\ call[p].user = "U2" /\ call[p].device = "D2"
        /\ result[p] = Unit /\ hist[p].ins
        /\ Stored \subseteq table
        /\ Cardinality(table) = Cardinality(Stored) + 1

\* C17: find_by_user_and_device and find_logins_before leave the table as it
\* was; and a find_logins_before that follows another with the same dt, no row
\* inserted or deleted since that one, returns the same rows.
C17_ReadsOnly ==
    [][\A p \in Procs :
          (/\ Returns(p)
           /\ call'[p].op \in {"find_by_user_and_device", "find_logins_before"})
          => /\ table' = table
             /\ \A q \in Procs \ {p} :
                   (/\ pc[q] = "done"
                    /\ call[q].op = "find_logins_before"
                    /\ call'[p].op = "find_logins_before"
                    /\ call[q].dt = call'[p].dt
                    /\ result[q].kind = "Vec" /\ result'[p].kind = "Vec"
                    /\ ~hist[q].ins /\ ~hist[q].del)
                   => result'[p] = result[q]]_vars

\* Two scans with threshold 1 in a row over the three stored rows: both
\* returned the three rows, which are all still stored.
C17_Witness ==
    \E p \in Procs, q \in Procs :
        /\ pc[p] = "done" /\ pc[q] = "done"
        /\ call[q].op = "find_logins_before" /\ call[p].op = "find_logins_before"
        /\ call[q].id = 1 /\ call[p].id = 2
        /\ call[q].dt = 1 /\ call[p].dt = 1
        /\ result[q] = Vec(Stored) /\ result[p] = Vec(Stored)
        /\ table = Stored

\* C18: a mark_incomplete call that passed the gate (feature on) and returns
\* Ok(()), no row of its key deleted since it began, returns with a record of
\* its key in the table.
C18_SuccessMeansRecord ==
    [][\A p \in Procs :
          (/\ Returns(p)
           /\ call'[p].op = "mark_incomplete"
           /\ (call'[p].time_limit > 0 /\ call'[p].mail_enabled)
           /\ result'[p] = Unit
           /\ ~hist'[p].del)
          => KeyRows(table, p)' # {}]_vars

\* A mark_incomplete with the feature on found its key absent, lost the time
\* between lookup and insert to nobody, inserted and returned Ok(()) one tick
\* after it began: the key's record is in the table.
C18_Witness ==
    \E p \in Procs :
        /\ pc[p] = "done" /\ call[p].op = "mark_incomplete"
        /\ call[p].time_limit > 0 /\ call[p].mail_enabled
        /\ result[p] = Unit
        /\ hist[p].start = {} /\ ~hist[p].del /\ hist[p].racers = {}
        /\ hist[p].t0 = 0 /\ now = 1
        /\ \E r \in KeyRows(table, p) : r.login_time = 1

\* C19: delete, delete_by_user_and_device and delete_all_by_user have no
\* feature gate: whatever CONFIG holds, feature on or off, a call of one of
\* them whose statement did not fail returns Ok(()) with the rows of its key,
\* or of its user, gone from the table and the other rows kept.
C19_DeletesNotGated ==
    [][\A p \in Procs :
          (/\ Returns(p)
           /\ call'[p].op \in {"delete", "delete_by_user_and_device", "delete_all_by_user"}
           /\ ~hist'[p].fault)
          => /\ result'[p] = Unit
             /\ table' = table \ RowsOf(table, call'[p])]_vars

\* A record created by a mark_incomplete with the feature on was removed by a
\* delete_by_user_and_device made while the feature was off.
C19_Witness ==
    \E p \in Procs, q \in Procs :
        /\ pc[q] = "done" /\ call[q].op = "mark_incomplete"
        /\ call[q].time_limit > 0 /\ call[q].mail_enabled
        /\ hist[q].ins /\ hist[q].del
        /\ pc[p] = "done" /\ call[p].op = "delete_by_user_and_device"
        /\ call[p].user = call[q].user /\ call[p].device = call[q].device
        /\ call[p].time_limit <= 0 /\ ~call[p].mail_enabled
        /\ call[p].id > call[q].id
        /\ hist[p].start # {} /\ hist[p].del
        /\ result[p] = Unit
        /\ KeyRows(table, p) = {}

\* C20: a find_logins_before whose load failed in the storage layer does not
\* return: it panics; so a call that does return a Vec returns all the rows
\* older than dt of the table it read, never none or some of them.
C20_FailedScanPanics ==
    [][\A p \in Procs :
          (Returns(p) /\ call'[p].op = "find_logins_before")
          => /\ hist'[p].fault => result'[p] = Panicked
             /\ result'[p].kind = "Vec"
                => /\ ~hist'[p].fault
                   /\ result'[p].rows = {r \in table : r.login_time < call'[p].dt}]_vars

\* A scan with threshold 1 over the three stored rows, all older than that,
\* failed in the storage layer: it panicked and returned no rows.
C20_Witness ==
    \E p \in Procs :
        /\ pc[p] = "done" /\ call[p].op = "find_logins_before"
        /\ call[p].dt = 1
        /\ hist[p].fault
        /\ result[p] = Panicked
        /\ table = Stored
        /\ \A r \in table : r.login_time < call[p].dt
====
